---- MODULE Spec2Model ----
(***************************************************************************)
(* A model of the offline Markdown responder of rock_paper_sizzor.py       *)
(* (the second, effective set of definitions, lines 347-674).              *)
(*                                                                         *)
(* Text is a sequence of one-character strings.  A response is a sequence  *)
(* of lines (what "\n".join yields); a line is a sequence of fragments: a  *)
(* fragment is either a literal piece of a template (kept as one string)   *)
(* or one character of text derived from the input.                        *)
(*                                                                         *)
(* The interpreter is CPython 3.11 to 3.13 with its defaults: ast.Num      *)
(* exists, and int() refuses a text of more than 4300 digits.  An          *)
(* exception that nothing catches is kept as the reply Uncaught(name).     *)
(***************************************************************************)
EXTENDS Integers, Sequences, FiniteSets, TLC

VARIABLES user,     \* the input text handed to the operation
          nkeys,    \* how many pieces of input were typed so far
          pc,       \* "typing" while the input is built, then the operation's position
          intent,   \* respond's local `intent`
          reply,    \* the text the operation returned (a sequence of lines)
          value,    \* math_calculate's second result (a number or None)
          items,    \* rank_items' argument
          ranked,   \* rank_items' result
          lines,    \* the lines main has read so far, as typed
          printed,  \* what main has printed: the text, and the line it answers
          globals   \* the module's tables: FACTS, the pattern lists and STYLE

vars == <<user, nkeys, pc, intent, reply, value, items, ranked, lines, printed, globals>>

\* ------------------------------------------------------------------ text

\* The printable ASCII characters in code point order (32..126); the double quote,
\* the backslash and the backtick, which no text of the model holds, are named, not written.
Ascii ==
  << " ", "!", "<quote>", "#", "$", "%", "&", "'", "(", ")", "*", "+", ",", "-", ".", "/",
     "0", "1", "2", "3", "4", "5", "6", "7", "8", "9", ":", ";", "<", "=", ">", "?",
     "@", "A", "B", "C", "D", "E", "F", "G", "H", "I", "J", "K", "L", "M", "N", "O",
     "P", "Q", "R", "S", "T", "U", "V", "W", "X", "Y", "Z", "[", "<backslash>", "]", "^", "_",
     "<backtick>", "a", "b", "c", "d", "e", "f", "g", "h", "i", "j", "k", "l", "m", "n", "o",
     "p", "q", "r", "s", "t", "u", "v", "w", "x", "y", "z", "{", "|", "}", "~" >>

\* The code point of each printable character.
CodePoint ==
  [c \in {Ascii[i] : i \in 1..Len(Ascii)} |-> 31 + (CHOOSE i \in 1..Len(Ascii) : Ascii[i] = c)]

\* ord(c): the code point of a character (tab is 9).
Ord(c) == IF c = "\t" THEN 9 ELSE CodePoint[c]

IsUpper(c) == Ord(c) >= 65 /\ Ord(c) <= 90
IsLowerCh(c) == Ord(c) >= 97 /\ Ord(c) <= 122
IsDigit(c) == Ord(c) >= 48 /\ Ord(c) <= 57
IsAlpha(c) == IsUpper(c) \/ IsLowerCh(c)
\* str.strip() and \s: the whitespace characters of the model.
IsSpace(c) == c \in {" ", "\t"}

\* str.lower() on one character.
LowerCh(c) == IF IsUpper(c) THEN Ascii[Ord(c) + 32 - 31] ELSE c

\* str.lower()
Lower(t) == [i \in 1..Len(t) |-> LowerCh(t[i])]

\* t[i:] and t[:i] (0-based, as Python slices).
From(t, i) == SubSeq(t, i + 1, Len(t))
Upto(t, i) == SubSeq(t, 1, i)

\* str.strip()
RECURSIVE LStrip(_)
LStrip(t) == IF t # <<>> /\ IsSpace(Head(t)) THEN LStrip(Tail(t)) ELSE t
RECURSIVE RStrip(_)
RStrip(t) == IF t # <<>> /\ IsSpace(t[Len(t)]) THEN RStrip(Upto(t, Len(t) - 1)) ELSE t
Strip(t) == RStrip(LStrip(t))

\* str.startswith
StartsWith(t, p) == Len(p) <= Len(t) /\ Upto(t, Len(p)) = p

\* Whether p occurs in t at the 0-based index i.
OccursAt(t, p, i) == \A k \in 1..Len(p) : t[i + k] = p[k]

\* str.find: the 0-based index of the first occurrence of p in t, or -1.
Find(t, p) ==
  LET hits == {i \in 0..(Len(t) - Len(p)) : OccursAt(t, p, i)}
  IN IF hits = {} THEN -1 ELSE CHOOSE i \in hits : \A j \in hits : i <= j

\* p in t
Contains(t, p) == \E i \in 0..(Len(t) - Len(p)) : OccursAt(t, p, i)

\* t.split(sep, 1)[-1]: what follows the first sep, or all of t without one.
AfterFirst(t, sep) == IF Find(t, sep) < 0 THEN t ELSE From(t, Find(t, sep) + Len(sep))

\* t.split(sep, 1)[0]
BeforeFirst(t, sep) == IF Find(t, sep) < 0 THEN t ELSE Upto(t, Find(t, sep))

\* t.split(sep): every piece between occurrences of the one-character sep.
RECURSIVE Split(_, _)
Split(t, sep) ==
  IF Find(t, sep) < 0 THEN <<t>>
  ELSE <<Upto(t, Find(t, sep))>> \o Split(From(t, Find(t, sep) + Len(sep)), sep)

\* The element of a one-element set: The({e(x) : x \in {v}}) is e(v), with v
\* computed once and named x, as an assignment to a local does.
The(S) == CHOOSE x \in S : TRUE

\* t.replace(c, "") for a one-character c.
Remove(t, c) == SelectSeq(t, LAMBDA ch : ch # c)

\* sep.join(parts), for sequences of sequences
RECURSIVE Join(_, _)
Join(parts, sep) ==
  IF parts = <<>> THEN <<>>
  ELSE IF Len(parts) = 1 THEN parts[1]
  ELSE parts[1] \o sep \o Join(Tail(parts), sep)

\* The texts the model writes out, character by character.
T_math == <<"m", "a", "t", "h", ":">>
T_compare == <<"c", "o", "m", "p", "a", "r", "e", ":">>
T_rank == <<"r", "a", "n", "k", ":">>
T_explain == <<"e", "x", "p", "l", "a", "i", "n", ":">>
T_summarize == <<"s", "u", "m", "m", "a", "r", "i", "z", "e", ":">>
T_brainstorm == <<"b", "r", "a", "i", "n", "s", "t", "o", "r", "m", ":">>
T_solve == <<"s", "o", "l", "v", "e">>

\* ------------------------------------------------------- safety guardrails

\* HARMFUL_PATTERNS; self[-\s]?harm is spelled out as its four alternatives.
HARMFUL_PATTERNS ==
  << <<"s", "u", "i", "c", "i", "d", "e">>,
     <<"k", "i", "l", "l", " ", "m", "y", "s", "e", "l", "f">>,
     <<"h", "a", "r", "m", " ", "m", "y", "s", "e", "l", "f">>,
     <<"s", "e", "l", "f", "h", "a", "r", "m">>,
     <<"s", "e", "l", "f", "-", "h", "a", "r", "m">>,
     <<"s", "e", "l", "f", " ", "h", "a", "r", "m">>,
     <<"s", "e", "l", "f", "\t", "h", "a", "r", "m">>,
     <<"h", "a", "r", "m", " ", "o", "t", "h", "e", "r", "s">>,
     <<"h", "u", "r", "t", " ", "s", "o", "m", "e", "o", "n", "e">>,
     <<"v", "i", "o", "l", "e", "n", "c", "e">>,
     <<"b", "o", "m", "b">>,
     <<"w", "e", "a", "p", "o", "n">>,
     <<"a", "b", "u", "s", "e">>,
     <<"p", "o", "i", "s", "o", "n">>,
     <<"o", "v", "e", "r", "d", "o", "s", "e">> >>

MEDICAL_PATTERNS ==
  << <<"d", "i", "a", "g", "n", "o", "s", "e">>,
     <<"s", "y", "m", "p", "t", "o", "m">>,
     <<"t", "r", "e", "a", "t", "m", "e", "n", "t">>,
     <<"m", "e", "d", "i", "c", "a", "t", "i", "o", "n">>,
     <<"d", "o", "s", "e">>,
     <<"t", "h", "e", "r", "a", "p", "y">>,
     <<"s", "i", "d", "e", " ", "e", "f", "f", "e", "c", "t">>,
     <<"p", "r", "e", "s", "c", "r", "i", "b", "e">>,
     <<"p", "r", "o", "g", "n", "o", "s", "i", "s">> >>

\* any(re.search(p, text.lower()) for p in patterns)
AnyPattern(patterns, text) ==
  LET t == Lower(text)
  IN \E i \in 1..Len(patterns) : Contains(t, patterns[i])

is_harmful(text) == AnyPattern(HARMFUL_PATTERNS, text)

is_medical(text) == AnyPattern(MEDICAL_PATTERNS, text)

\* ------------------------------------------------------------ knowledge

\* FACTS, in insertion order: each key with the fact it maps to.
FACTS ==
  << [k |-> <<"b", "e", "s", "t", " ", "m", "e", "t", "a", "l", " ", "c", "o", "n", "d",
               "u", "c", "t", "o", "r", " ", "o", "f", " ", "h", "e", "a", "t">>,
      v |-> "Silver has the highest thermal conductivity among common metals; copper is close."],
     [k |-> <<"d", "i", "a", "m", "o", "n", "d", " ", "t", "h", "e", "r", "m", "a", "l", " ",
               "c", "o", "n", "d", "u", "c", "t", "i", "v", "i", "t", "y">>,
      v |-> "Diamond (not a metal) has extremely high thermal conductivity."],
     [k |-> <<"o", "h", "m", " ", "l", "a", "w">>,
      v |-> "Ohm's law: V = I x R."],
     [k |-> <<"n", "e", "w", "t", "o", "n", " ", "s", "e", "c", "o", "n", "d", " ", "l", "a", "w">>,
      v |-> "Newton's second law: F = m x a."],
     [k |-> <<"p", "y", "t", "h", "o", "n", " ", "l", "i", "s", "t">>,
      v |-> "A Python list is an ordered, mutable collection supporting indexing and slicing."] >>

\* The value lookup_fact returns for no hit.
None == "None"

\* lookup_fact: the fact of the first key, in FACTS' order, found in q.lower().strip().
lookup_fact(q) ==
  LET t == Strip(Lower(q))
      hits == {i \in 1..Len(FACTS) : Contains(t, FACTS[i].k)}
  IN IF hits = {} THEN None
     ELSE FACTS[CHOOSE i \in hits : \A j \in hits : i <= j].v

\* ------------------------------------------------------ Markdown helpers

\* h(level, text): level clamped to 1..6, that many '#', a space, the text.
h(level, text) ==
  LET l == IF level < 1 THEN 1 ELSE IF level > 6 THEN 6 ELSE level
  IN [i \in 1..l |-> "#"] \o <<" ">> \o text

\* bullet(label, desc)
bullet(label, desc) == <<"- **">> \o label \o <<":** ">> \o desc

\* STYLE["short_reply_threshold"] and STYLE["max_table_cols"]
short_reply_threshold == 140
max_table_cols == 5

\* table(headers, rows): a list of lines (empty for no headers).
table(headers, rows) ==
  IF headers = <<>> THEN << <<>> >>
  ELSE LET hd == Upto(headers, IF Len(headers) < max_table_cols
                                THEN Len(headers) ELSE max_table_cols)
           Row(cells) == <<"| ">> \o Join(cells, <<" | ">>) \o <<" |">>
       IN << Row(hd), Row([i \in 1..Len(hd) |-> <<"---">>]) >>
          \o [r \in 1..Len(rows) |->
                Row(Upto(rows[r], IF Len(rows[r]) < Len(hd) THEN Len(rows[r]) ELSE Len(hd)))]

\* ------------------------------------------------------ response builders

RefusalTemplate ==
  << h(3, <<"I can't help with that">>),
     <<"I'm here to keep you safe and informed. I can't assist with harming yourself or others.">>,
     <<"If you want general information or a different topic, I'm here for that.">> >>

MedicalTemplate ==
  << h(3, <<"General guidance only">>),
     <<"I can share general information, but I can't provide medical advice or diagnoses.">>,
     <<"Consider speaking to a qualified professional for personalized support.">> >>

FactTemplate(fact) == << h(3, <<"Direct answer">>), <<fact>> >>

ShortTemplate == << <<"Got it. Want a quick breakdown or a deeper dive?">> >>

LongTemplate ==
  << h(2, <<"Overview">>),
     <<"Here's a concise, structured take tailored to your prompt.">>,
     <<>>,
     h(3, <<"Key points">>),
     bullet(<<"Context">>, <<"I'm offline, so I'll focus on reasoning and clarity.">>),
     bullet(<<"Assumptions">>, <<"I infer intent from your wording and keep answers concise.">>),
     bullet(<<"Next step">>, <<"Ask for a comparison, math, or a summary for more structure.">>) >>

respond_chat_MedicalFirst(u) ==
  IF is_medical(u) THEN MedicalTemplate
  ELSE IF is_harmful(u) THEN RefusalTemplate
  ELSE IF lookup_fact(u) # None THEN FactTemplate(lookup_fact(u))
  ELSE IF Len(u) < short_reply_threshold THEN ShortTemplate
  ELSE LongTemplate

respond_chat(u) ==
  IF is_harmful(u) THEN RefusalTemplate
  ELSE IF is_medical(u) THEN MedicalTemplate
  ELSE IF lookup_fact(u) # None THEN FactTemplate(lookup_fact(u))
  ELSE IF Len(u) < short_reply_threshold THEN ShortTemplate
  ELSE LongTemplate

\* ---------------------------------------------------------------- numbers

\* The value of a decimal digit and of a run of decimal digits.
DigitVal(c) == Ord(c) - 48

RECURSIVE DigitsVal(_)
DigitsVal(ds) ==
  IF ds = <<>> THEN 0 ELSE 10 * DigitsVal(Upto(ds, Len(ds) - 1)) + DigitVal(ds[Len(ds)])

IsDigits(ds) == ds # <<>> /\ \A i \in 1..Len(ds) : IsDigit(ds[i])

Abs(n) == IF n < 0 THEN -n ELSE n

\* str(n) for an int.
RECURSIVE NatToChars(_)
NatToChars(n) ==
  IF n < 10 THEN <<Ascii[n + 48 - 31]>>
  ELSE NatToChars(n \div 10) \o <<Ascii[(n % 10) + 48 - 31]>>

IntToChars(n) == IF n < 0 THEN <<"-">> \o NatToChars(-n) ELSE NatToChars(n)

\* The longest digit string int() converts (sys.int_info.default_max_str_digits
\* of CPython 3.11 and later, and of the security releases of 3.7 to 3.10).
MaxStrDigits == 4300

\* The integers of at most this many digits are kept with their value; of a longer
\* one the model keeps the number of digits only.
MaxExactDigits == 8

\* An int of the model: its value v where it has at most MaxExactDigits digits,
\* and the number nd of its digits without leading zeros (0 for zero).
PyInt(v, nd) == [ok |-> TRUE, v |-> v, nd |-> nd]
ValueError == [ok |-> FALSE, v |-> 0, nd |-> 0]

\* int(t) for a text t without surrounding whitespace: an optional sign, decimal
\* digits with single underscores allowed between them; ValueError for any other
\* text and for more than MaxStrDigits digits.
ParseStripped(t) ==
  LET signed == t # <<>> /\ Head(t) \in {"+", "-"}
      body == IF signed THEN Tail(t) ELSE t
      wellFormed ==
        /\ body # <<>>
        /\ IsDigit(body[1]) /\ IsDigit(body[Len(body)])
        /\ \A i \in 1..Len(body) : IsDigit(body[i]) \/ body[i] = "_"
        /\ \A i \in 1..(Len(body) - 1) : ~(body[i] = "_" /\ body[i + 1] = "_")
      digits == Remove(body, "_")
      nonZero == {i \in 1..Len(digits) : digits[i] # "0"}
      first == IF nonZero = {} THEN Len(digits) + 1
               ELSE CHOOSE i \in nonZero : \A j \in nonZero : i <= j
      nd == Len(digits) + 1 - first
      mag == IF nd <= MaxExactDigits THEN DigitsVal(From(digits, first - 1)) ELSE 0
  IN IF wellFormed /\ Len(digits) <= MaxStrDigits
       THEN PyInt(IF signed /\ Head(t) = "-" THEN -mag ELSE mag, nd)
       ELSE ValueError

\* int(s): surrounding whitespace is ignored.
ParseInt(s) == The({ParseStripped(t) : t \in {Strip(s)}})

RECURSIVE Gcd(_, _)
Gcd(m, n) == IF n = 0 THEN Abs(m) ELSE Gcd(n, m % n)

\* A float is modelled by the rational n/d (d > 0, in lowest terms) that the double
\* is nearest to; n = 0 with d = -1 is the negative zero.
Float(p, q) ==
  IF p = 0 THEN [n |-> 0, d |-> IF q < 0 THEN -1 ELSE 1]
  ELSE LET g == Gcd(Abs(p), Abs(q))
           sgn == IF (p < 0) # (q < 0) THEN -1 ELSE 1
       IN [n |-> sgn * (Abs(p) \div g), d |-> Abs(q) \div g]

\* Whether the decimal expansion of 1/d ends (d has no prime factor but 2 and 5).
RECURSIVE EndsInDecimal(_)
EndsInDecimal(d) ==
  IF d = 1 THEN TRUE
  ELSE IF d % 2 = 0 THEN EndsInDecimal(d \div 2)
  ELSE IF d % 5 = 0 THEN EndsInDecimal(d \div 5)
  ELSE FALSE

\* The digits after the point of r/d (0 <= r < d), when they end.
RECURSIVE FractionDigits(_, _)
FractionDigits(r, d) ==
  IF r = 0 THEN <<>>
  ELSE <<Ascii[((10 * r) \div d) + 48 - 31]>> \o FractionDigits((10 * r) % d, d)

\* repr(x) of a float: exact where the decimal expansion ends (4.0, 3.5, -0.0);
\* otherwise the rational itself stands for the shortest decimal Python prints.
ReprFloat(x) ==
  IF x.n = 0 THEN (IF x.d < 0 THEN <<"-", "0", ".", "0">> ELSE <<"0", ".", "0">>)
  ELSE IF x.d = 1 THEN IntToChars(x.n) \o <<".", "0">>
  ELSE IF EndsInDecimal(x.d)
    THEN (IF x.n < 0 THEN <<"-">> ELSE <<>>) \o NatToChars(Abs(x.n) \div x.d)
         \o <<".">> \o FractionDigits(Abs(x.n) % x.d, x.d)
  ELSE <<"double(">> \o IntToChars(x.n) \o <<"/">> \o IntToChars(x.d) \o <<")">>

\* ------------------------------------------------------------ solve_linear

\* re.match(r"^([+-]?\d*)x([+-]\d+)?$", left): ok, and the two groups (b = None
\* when the second group took no part in the match).
MatchLinear(left) ==
  LET s == IF left # <<>> /\ Head(left) \in {"+", "-"} THEN 1 ELSE 0
      digitRun(from) ==
        LET others == {j \in (from + 1)..Len(left) : ~IsDigit(left[j])}
        IN IF others = {} THEN Len(left)
           ELSE (CHOOSE j \in others : \A k \in others : j <= k) - 1
      e == digitRun(s)                 \* left[1..e] is the first group
      hasX == e < Len(left) /\ left[e + 1] = "x"
      rest == From(left, e + 1)
      restOk == \/ rest = <<>>
                \/ /\ Len(rest) >= 2
                   /\ rest[1] \in {"+", "-"}
                   /\ IsDigits(Tail(rest))
  IN IF hasX /\ restOk
       THEN [ok |-> TRUE, a |-> Upto(left, e), b |-> IF rest = <<>> THEN <<None>> ELSE rest]
       ELSE [ok |-> FALSE, a |-> <<>>, b |-> <<None>>]

NoteNoEquation == << <<"- **Note:** Please provide an equation like 2x+3=11.">> >>
NoteNotLinear == << <<"- **Note:** I can only solve simple linear equations like 2x+3=11.">> >>
NoteRightSide == << <<"- **Note:** Right-hand side should be a number.">> >>
NoteZeroCoefficient ==
  << <<"- **Note:** Coefficient of x cannot be zero for a linear equation.">> >>

\* The four-line derivation of solve_linear for eq with a, b, c and the solution x.
Derivation(eq, a, b, c, x) ==
  << <<"- **Given:** (">> \o eq \o <<")">>,
     <<"- **Rearrange:** (ax + b = c => x = frac{c - b}{a})">>,
     <<"- **Compute:** (frac{">> \o IntToChars(c) \o <<" - ">> \o IntToChars(b) \o <<"}{">>
        \o IntToChars(a) \o <<"} = ">> \o ReprFloat(x) \o <<")">>,
     <<"- **Solution:** (x = ">> \o ReprFloat(x) \o <<")">> >>

\* eq.replace("^", "**")
RECURSIVE CaretToPower(_)
CaretToPower(t) ==
  IF t = <<>> THEN <<>>
  ELSE (IF Head(t) = "^" THEN <<"*", "*">> ELSE <<Head(t)>>) \o CaretToPower(Tail(t))

\* An exception that leaves the function: in place of a returned text, what the
\* interpreter writes when nothing catches it.
Uncaught(exc) == << <<"Traceback (most recent call last):">>, <<exc>> >>

IsUncaught(r) == r # <<>> /\ r[1] = <<"Traceback (most recent call last):">>

\* The number of digits of the largest float (sys.float_info.max is about 1.8e308).
FloatMaxDigits == 309

\* (c - b) / a raises OverflowError when the quotient is too large for a float.
\* That is certain when c - b has at least FloatMaxDigits + 1 digits more than a:
\* one of b, c is two or more digits longer than the other, so the difference
\* keeps all but one of its digits.
TooLargeForFloat(a, b, c) ==
  \/ b.nd + 2 <= c.nd /\ c.nd >= a.nd + FloatMaxDigits + 1
  \/ c.nd + 2 <= b.nd /\ b.nd >= a.nd + FloatMaxDigits + 1

\* a = 1 if a_str in ("", "+") else (-1 if a_str == "-" else int(a_str))
IntOfCoefficient(a_str) ==
  IF a_str \in {<<>>, <<"+">>} THEN PyInt(1, 1)
  ELSE IF a_str = <<"-">> THEN PyInt(-1, 1) ELSE ParseInt(a_str)

\* b = int(b_str) if b_str else 0
IntOfConstant(b_str) == IF b_str = <<None>> THEN PyInt(0, 0) ELSE ParseInt(b_str)

\* The locals of solve_linear(eq0) up to c = int(right).
LinearParts(eq0) ==
  The({ [eq |-> eq,
         hasEquals |-> Contains(eq, <<"=">>),
         matched |-> MatchLinear(BeforeFirst(eq, <<"=">>)).ok,
         a |-> IntOfCoefficient(MatchLinear(BeforeFirst(eq, <<"=">>)).a),
         b |-> IntOfConstant(MatchLinear(BeforeFirst(eq, <<"=">>)).b),
         c |-> ParseInt(AfterFirst(eq, <<"=">>))] : eq \in {Remove(eq0, " ")} })

\* What solve_linear does with its locals: the checks in the code's order, each
\* with its own note, then x = (c - b) / a by true division.  int(a_str) and
\* int(b_str) stand outside the try blocks, and the second try catches
\* ZeroDivisionError only.
Solved(p) ==
  IF ~p.hasEquals THEN NoteNoEquation
  ELSE IF ~p.matched THEN NoteNotLinear
  ELSE IF ~p.a.ok \/ ~p.b.ok THEN Uncaught("ValueError")
  ELSE IF ~p.c.ok THEN NoteRightSide
  ELSE IF p.a.nd = 0 THEN NoteZeroCoefficient
  ELSE IF TooLargeForFloat(p.a, p.b, p.c) THEN Uncaught("OverflowError")
  ELSE Derivation(CaretToPower(p.eq), p.a.v, p.b.v, p.c.v, Float(p.c.v - p.b.v, p.a.v))

\* solve_linear(eq)
solve_linear(eq0) == The({Solved(p) : p \in {LinearParts(eq0)}})

\* Whether the model covers the quotient of these locals: where one is computed
\* and is not certainly too large, a, b and c are integers the model keeps exactly.
QuotientModelled(p) ==
  (/\ p.hasEquals /\ p.matched /\ p.a.ok /\ p.b.ok /\ p.c.ok /\ p.a.nd # 0
   /\ ~TooLargeForFloat(p.a, p.b, p.c))
    => /\ p.a.nd <= MaxExactDigits
       /\ p.b.nd <= MaxExactDigits
       /\ p.c.nd <= MaxExactDigits

\* Whether the model covers solve_linear(eq0).
SolveModelled(eq0) == \A p \in {LinearParts(eq0)} : QuotientModelled(p)

\* ------------------------------------------------- ast.parse(expr, mode='eval')
\*
\* The expressions of the model are those Python spells with decimal integers,
\* names, True/False/None, parentheses, the unary + - ~ not, the binary
\* ** * / // % + - |, the comparisons, and/or and the comma.  A text that needs
\* more of Python (a float, hex or complex literal, a quote, a bracket, a call, a
\* keyword such as lambda) lexes or parses to Unmodelled, and the model takes no
\* step on it.

Tok(k, s, v) == [k |-> k, s |-> s, v |-> v]
UnmodelledTok == Tok("unmodelled", "", 0)
ErrorTok == Tok("error", "", 0)

\* Python's keywords other than True, False, None, and, or, not.
OtherKeywords ==
  { <<"a", "s">>, <<"a", "s", "s", "e", "r", "t">>, <<"a", "s", "y", "n", "c">>,
     <<"a", "w", "a", "i", "t">>, <<"b", "r", "e", "a", "k">>, <<"c", "l", "a", "s", "s">>,
     <<"c", "o", "n", "t", "i", "n", "u", "e">>, <<"d", "e", "f">>, <<"d", "e", "l">>,
     <<"e", "l", "i", "f">>, <<"e", "l", "s", "e">>, <<"e", "x", "c", "e", "p", "t">>,
     <<"f", "i", "n", "a", "l", "l", "y">>, <<"f", "o", "r">>, <<"f", "r", "o", "m">>,
     <<"g", "l", "o", "b", "a", "l">>, <<"i", "f">>, <<"i", "m", "p", "o", "r", "t">>,
     <<"i", "n">>, <<"i", "s">>, <<"l", "a", "m", "b", "d", "a">>,
     <<"n", "o", "n", "l", "o", "c", "a", "l">>, <<"p", "a", "s", "s">>,
     <<"r", "a", "i", "s", "e">>, <<"r", "e", "t", "u", "r", "n">>, <<"t", "r", "y">>,
     <<"w", "h", "i", "l", "e">>, <<"w", "i", "t", "h">>, <<"y", "i", "e", "l", "d">> }

W_True == <<"T", "r", "u", "e">>
W_False == <<"F", "a", "l", "s", "e">>

\* The longest decimal literal whose value the model computes.
MaxDigits == 4

IsWordCh(c) == IsAlpha(c) \/ IsDigit(c) \/ c = "_"

\* The length of the longest prefix of t made of word characters (word) or of
\* digits (not word).
RunLength(t, word) ==
  LET ends == {j \in 0..Len(t) : \A i \in 1..j : IF word THEN IsWordCh(t[i]) ELSE IsDigit(t[i])}
  IN CHOOSE j \in ends : \A k \in ends : k <= j

\* The tokens of a text, left to right; lexing stops at the first token that is an
\* error (ErrorTok: Python raises SyntaxError) or outside the model (UnmodelledTok).
RECURSIVE Lex(_)
Lex(t) ==
  IF t = <<>> THEN <<>>
  ELSE LET c == Head(t) IN
    IF IsSpace(c) THEN Lex(Tail(t))
    ELSE IF IsDigit(c) THEN
      LET n == RunLength(t, FALSE)
          glued == n < Len(t) /\ (IsAlpha(t[n + 1]) \/ t[n + 1] \in {"_", "."})
      IN IF glued \/ n > MaxDigits THEN <<UnmodelledTok>>
         ELSE IF n > 1 /\ c = "0" /\ DigitsVal(Upto(t, n)) # 0 THEN <<ErrorTok>>
         ELSE <<Tok("num", "", DigitsVal(Upto(t, n)))>> \o Lex(From(t, n))
    ELSE IF IsAlpha(c) \/ c = "_" THEN
      LET n == RunLength(t, TRUE)
          w == Upto(t, n)
      IN IF w \in OtherKeywords THEN <<UnmodelledTok>>
         ELSE (IF w = W_True THEN <<Tok("const", "True", 0)>>
               ELSE IF w = W_False THEN <<Tok("const", "False", 0)>>
               ELSE IF w = <<"N", "o", "n", "e">> THEN <<Tok("const", "None", 0)>>
               ELSE IF w = <<"a", "n", "d">> THEN <<Tok("op", "and", 0)>>
               ELSE IF w = <<"o", "r">> THEN <<Tok("op", "or", 0)>>
               ELSE IF w = <<"n", "o", "t">> THEN <<Tok("op", "not", 0)>>
               ELSE <<Tok("name", "", 0)>>) \o Lex(From(t, n))
    ELSE IF Len(t) >= 2 /\ <<c, t[2]>> \in {<<"*", "*">>, <<"/", "/">>} THEN
      <<Tok("op", IF c = "*" THEN "**" ELSE "//", 0)>> \o Lex(From(t, 2))
    ELSE IF Len(t) >= 2 /\ <<c, t[2]>> \in {<<"=", "=">>, <<"<", "=">>, <<">", "=">>, <<"!", "=">>}
      THEN <<Tok("op", "cmp", 0)>> \o Lex(From(t, 2))
    ELSE IF Len(t) >= 2 /\ <<c, t[2]>> \in {<<"<", "<">>, <<">", ">">>, <<":", "=">>}
      THEN <<UnmodelledTok>>
    ELSE IF c \in {"<", ">"} THEN <<Tok("op", "cmp", 0)>> \o Lex(Tail(t))
    ELSE IF c \in {"+", "-", "*", "/", "%", "(", ")", "~", "|", ",", ":", "="}
      THEN <<Tok("op", c, 0)>> \o Lex(Tail(t))
    ELSE IF c \in {"!", "$", "?"} THEN <<ErrorTok>>
    ELSE <<UnmodelledTok>>

\* The trees ast.parse builds.  A node of a type safe_eval_expr never descends
\* into (Name, Compare, BoolOp, Tuple) is kept without its children.
Num(v) == [k |-> "Num", v |-> v]
Constant(v) == [k |-> "Constant", v |-> v]
Leaf(k) == [k |-> k]
BinOp(op, l, r) == [k |-> "BinOp", op |-> op, l |-> l, r |-> r]
UnaryOp(op, e) == [k |-> "UnaryOp", op |-> op, e |-> e]

\* A parse: st is "ok" (t is the tree, p the next token), "error" (SyntaxError)
\* or "unmodelled".
Parsed(t, p) == [st |-> "ok", t |-> t, p |-> p]
Failed(st) == [st |-> st, t |-> Leaf("none"), p |-> 0]

\* The ast operator class of an operator token.
OpClass(arity, sym) ==
  IF arity = "unary"
    THEN CASE sym = "+" -> "UAdd" [] sym = "-" -> "USub" [] sym = "~" -> "Invert"
    ELSE CASE sym = "+" -> "Add" [] sym = "-" -> "Sub" [] sym = "*" -> "Mult"
           [] sym = "/" -> "Div" [] sym = "//" -> "FloorDiv" [] sym = "%" -> "Mod"

Peek(toks, i, ops) == i <= Len(toks) /\ toks[i].k = "op" /\ toks[i].s \in ops

\* The levels of the grammar whose operators take a left and a right operand, each
\* with its operator tokens and the level of its operands:
\*   expressions: disjunction (',' disjunction)* [',']
\*   disjunction: conjunction ('or' conjunction)*
\*   conjunction: inversion ('and' inversion)*
\*   comparison:  bitwise_or (compare_op bitwise_or)*
\*   bitwise_or:  sum ('|' sum)*
\*   sum:         term (('+' | '-') term)*
\*   term:        factor (('*' | '/' | '//' | '%') factor)*
LevelOps ==
  [tuple |-> {","}, or |-> {"or"}, and |-> {"and"}, cmp |-> {"cmp"}, bitor |-> {"|"},
   arith |-> {"+", "-"}, term |-> {"*", "/", "//", "%"}]

OperandLevel ==
  [tuple |-> "or", or |-> "and", and |-> "not", cmp |-> "bitor", bitor |-> "arith",
   arith |-> "term", term |-> "factor"]

\* The node of an operator of a level: a BinOp for the arithmetic levels (left to
\* right), one Tuple, BoolOp or Compare node for a whole chain.
NodeOf(level, sym, l, r) ==
  IF level = "tuple" THEN Leaf("Tuple")
  ELSE IF level \in {"or", "and"} THEN Leaf("BoolOp")
  ELSE IF level = "cmp" THEN Leaf("Compare")
  ELSE IF level = "bitor" THEN BinOp("BitOr", l, r)
  ELSE BinOp(OpClass("binary", sym), l, r)

RECURSIVE P_expr(_, _, _), P_rest(_, _, _, _)

\* The expression of a level that starts at token i.
\*   inversion: 'not' inversion | comparison
\*   factor:    ('+' | '-' | '~') factor | power
\*   power:     primary ['**' factor]; a primary is an atom, and an atom followed
\*              by '(' is a call, which the model leaves out
\*   atom:      NUMBER | NAME | True | False | None | '(' [expressions] ')'
\* A starred item of a tuple is left out of the model.
P_expr(level, toks, i) ==
  IF level \in DOMAIN OperandLevel THEN
    IF level = "tuple" /\ Peek(toks, i, {"*"}) THEN Failed("unmodelled")
    ELSE LET l == P_expr(OperandLevel[level], toks, i)
         IN IF l.st # "ok" THEN l ELSE P_rest(level, toks, l.t, l.p)
  ELSE IF level = "not" THEN
    IF Peek(toks, i, {"not"})
      THEN LET r == P_expr("not", toks, i + 1)
           IN IF r.st # "ok" THEN r ELSE Parsed(UnaryOp("Not", r.t), r.p)
      ELSE P_expr("cmp", toks, i)
  ELSE IF level = "factor" THEN
    IF Peek(toks, i, {"+", "-", "~"})
      THEN LET r == P_expr("factor", toks, i + 1)
           IN IF r.st # "ok" THEN r ELSE Parsed(UnaryOp(OpClass("unary", toks[i].s), r.t), r.p)
      ELSE P_expr("power", toks, i)
  ELSE IF level = "power" THEN
    LET l == P_expr("atom", toks, i)
    IN IF l.st = "ok" /\ Peek(toks, l.p, {"("}) THEN Failed("unmodelled")
       ELSE IF l.st = "ok" /\ Peek(toks, l.p, {"**"})
         THEN LET r == P_expr("factor", toks, l.p + 1)
              IN IF r.st # "ok" THEN r ELSE Parsed(BinOp("Pow", l.t, r.t), r.p)
       ELSE l
  ELSE \* atom
    IF i > Len(toks) THEN Failed("error")
    ELSE IF toks[i].k = "num" THEN Parsed(Num(toks[i].v), i + 1)
    ELSE IF toks[i].k = "const" THEN Parsed(Constant(toks[i].s), i + 1)
    ELSE IF toks[i].k = "name" THEN Parsed(Leaf("Name"), i + 1)
    ELSE IF Peek(toks, i, {"("}) THEN
      IF Peek(toks, i + 1, {")"}) THEN Parsed(Leaf("Tuple"), i + 2)
      ELSE LET r == P_expr("tuple", toks, i + 1)
           IN IF r.st # "ok" THEN r
              ELSE IF Peek(toks, r.p, {")"}) THEN Parsed(r.t, r.p + 1)
              ELSE Failed("error")
    ELSE Failed("error")

\* What follows the left operand l of a level, from token i on: operator and
\* operand, again and again.  A tuple may end in a comma.
P_rest(level, toks, l, i) ==
  IF Peek(toks, i, LevelOps[level]) THEN
    IF level = "tuple" /\ (i + 1 > Len(toks) \/ Peek(toks, i + 1, {")"}))
      THEN Parsed(Leaf("Tuple"), i + 1)
    ELSE IF level = "tuple" /\ Peek(toks, i + 1, {"*"}) THEN Failed("unmodelled")
    ELSE LET r == P_expr(OperandLevel[level], toks, i + 1)
         IN IF r.st # "ok" THEN r
            ELSE P_rest(level, toks, NodeOf(level, toks[i].s, l, r.t), r.p)
  ELSE Parsed(l, i)

\* ast.parse(expr, mode='eval').body: leading whitespace is an IndentationError,
\* and the whole text must be one expression.
Parse(expr) ==
  LET toks == Lex(expr)
      r == P_expr("tuple", toks, 1)
  IN IF expr # <<>> /\ IsSpace(expr[1]) THEN Failed("error")
     ELSE IF \E i \in 1..Len(toks) : toks[i].k = "unmodelled" THEN Failed("unmodelled")
     ELSE IF \E i \in 1..Len(toks) : toks[i].k = "error" THEN Failed("error")
     ELSE IF r.st = "ok" /\ r.p # Len(toks) + 1 THEN Failed("error")
     ELSE r

\* ------------------------------------------------------------ math engine

\* A Python value: an int or bool (n), a float (the double next to n/d; only a
\* float that is exactly n/d, d a power of two, takes part in further arithmetic),
\* a big int (n * 2^d, n = 1 or -1, beyond MaxSmall) and its float.  "raise" is
\* an exception, "unmodelled" a value outside these.
Val(t, n, d) == [t |-> t, n |-> n, d |-> d]
Raise == Val("raise", 0, 1)
Unmodelled == Val("unmodelled", 0, 1)
NoValue == Val("None", 0, 1)

\* The largest magnitude the model computes with exactly.
MaxSmall == 1000000000

\* float() raises OverflowError from 2^1024 on.
DoubleMaxExp == 1024

IntV(n) == IF Abs(n) <= MaxSmall THEN Val("int", n, 1) ELSE Unmodelled
FloatV(p, q) == Val("float", Float(p, q).n, Float(p, q).d)

MulFits(a, b) == a = 0 \/ b = 0 \/ Abs(a) <= MaxSmall \div Abs(b)

\* a ** b for a >= 2, b >= 0: the power, or 0 when it exceeds MaxSmall.
RECURSIVE SmallPow(_, _)
SmallPow(a, b) ==
  IF b = 0 THEN 1
  ELSE IF b > 31 THEN 0
  ELSE LET r == SmallPow(a, b - 1) IN IF r = 0 \/ ~MulFits(r, a) THEN 0 ELSE r * a

\* k with a = 2^k, or -1 when a >= 1 is no power of two.
RECURSIVE Log2(_)
Log2(a) ==
  IF a = 1 THEN 0
  ELSE IF a % 2 # 0 THEN -1
  ELSE LET k == Log2(a \div 2) IN IF k < 0 THEN -1 ELSE k + 1

\* a // b of ints: the quotient rounded toward negative infinity.
FloorDiv(a, b) ==
  LET q == Abs(a) \div Abs(b)
  IN IF (a < 0) = (b < 0) THEN q
     ELSE IF Abs(a) % Abs(b) = 0 THEN -q ELSE -q - 1

\* a % b of ints: the remainder of the floor division (it has b's sign).
Mod(a, b) == a - b * FloorDiv(a, b)

\* a ** b of ints.
IntPow(a, b) ==
  IF b >= 0 THEN
    IF b = 0 \/ a = 1 THEN IntV(1)
    ELSE IF a = 0 THEN IntV(0)
    ELSE IF a = -1 THEN IntV(IF b % 2 = 0 THEN 1 ELSE -1)
    ELSE LET m == SmallPow(Abs(a), b)
             sgn == IF a < 0 /\ b % 2 = 1 THEN -1 ELSE 1
         IN IF m # 0 THEN IntV(sgn * m)
            ELSE IF Log2(Abs(a)) > 0 /\ MulFits(Log2(Abs(a)), b)
              THEN Val("big", sgn, Log2(Abs(a)) * b)
            ELSE Unmodelled
  ELSE IF a = 0 THEN Raise                         \* ZeroDivisionError
  ELSE LET m == IF Abs(a) = 1 THEN 1 ELSE SmallPow(Abs(a), -b)
       IN IF m = 0 THEN Unmodelled
          ELSE FloatV(IF a < 0 /\ (-b) % 2 = 1 THEN -1 ELSE 1, m)

IntOp_NoZeroCheck(op, a, b) ==
  CASE op = "Add" -> IntV(a + b)
    [] op = "Sub" -> IntV(a - b)
    [] op = "Mult" -> IF MulFits(a, b) THEN IntV(a * b) ELSE Unmodelled
    [] op = "Div" -> IF b = 0 THEN FloatV(0, 1) ELSE FloatV(a, b)
    [] op = "FloorDiv" -> IF b = 0 THEN IntV(0) ELSE IntV(FloorDiv(a, b))
    [] op = "Mod" -> IF b = 0 THEN IntV(a) ELSE IntV(Mod(a, b))
    [] op = "Pow" -> IntPow(a, b)

\* operator.add, sub, mul, truediv, floordiv, mod and pow on two ints; the three
\* divisions raise ZeroDivisionError for a zero divisor.
IntOp(op, a, b) ==
  CASE op = "Add" -> IntV(a + b)
    [] op = "Sub" -> IntV(a - b)
    [] op = "Mult" -> IF MulFits(a, b) THEN IntV(a * b) ELSE Unmodelled
    [] op = "Div" -> IF b = 0 THEN Raise ELSE FloatV(a, b)
    [] op = "FloorDiv" -> IF b = 0 THEN Raise ELSE IntV(FloorDiv(a, b))
    [] op = "Mod" -> IF b = 0 THEN Raise ELSE IntV(Mod(a, b))
    [] op = "Pow" -> IntPow(a, b)

\* A float that is exactly n/d: d is a power of two (or the negative zero).
IsExact(x) == x.n = 0 \/ Log2(x.d) >= 0

\* The quotient p/q as a float, when p and q stay small.
Ratio(p1, p2, q1, q2) ==
  IF MulFits(p1, p2) /\ MulFits(q1, q2) THEN FloatV(p1 * p2, q1 * q2) ELSE Unmodelled

\* x ** k of an exact float x, k >= 0 an int.
RECURSIVE FloatPow(_, _)
FloatPow(x, k) ==
  IF k = 0 THEN FloatV(1, 1)
  ELSE IF k > 31 THEN Unmodelled
  ELSE LET r == FloatPow(x, k - 1)
       IN IF r.t # "float" THEN r ELSE Ratio(r.n, x.n, r.d, x.d)

\* Arithmetic with a float operand; x and y are exact rationals n/d, d > 0.
FloatOp(op, x, y) ==
  CASE op = "Add" ->
         IF MulFits(x.n, y.d) /\ MulFits(y.n, x.d) /\ MulFits(x.d, y.d)
           THEN FloatV(x.n * y.d + y.n * x.d, x.d * y.d) ELSE Unmodelled
    [] op = "Sub" ->
         IF MulFits(x.n, y.d) /\ MulFits(y.n, x.d) /\ MulFits(x.d, y.d)
           THEN FloatV(x.n * y.d - y.n * x.d, x.d * y.d) ELSE Unmodelled
    [] op = "Mult" -> Ratio(x.n, y.n, x.d, y.d)
    [] op = "Div" -> IF y.n = 0 THEN Raise ELSE Ratio(x.n, y.d, x.d, y.n)
    [] op = "FloorDiv" ->
         IF y.n = 0 THEN Raise
         ELSE IF MulFits(x.n, y.d) /\ MulFits(x.d, y.n)
           THEN FloatV(FloorDiv(x.n * y.d, x.d * y.n), 1) ELSE Unmodelled
    [] op = "Mod" ->
         IF y.n = 0 THEN Raise
         ELSE IF MulFits(x.n, y.d) /\ MulFits(x.d, y.n) /\ MulFits(x.d, y.d)
           THEN FloatV(Mod(x.n * y.d, y.n * x.d), x.d * y.d) ELSE Unmodelled
    [] op = "Pow" ->
         IF y.d # 1 THEN Unmodelled
         ELSE IF y.n >= 0 THEN FloatPow(x, y.n)
         ELSE IF x.n = 0 THEN Raise
         ELSE LET r == FloatPow(x, -y.n)
              IN IF r.t # "float" THEN r ELSE FloatV(r.d * (IF r.n < 0 THEN -1 ELSE 1), Abs(r.n))

\* Whether a number is negative, the negative zero included.
IsNegative(x) == x.n < 0 \/ (x.n = 0 /\ x.d < 0)

\* Whether a float operation on x and y whose result is zero gives the negative zero.
ZeroIsNegative(op, x, y) ==
  CASE op = "Add" -> IsNegative(x) /\ IsNegative(y)
    [] op = "Sub" -> x.n = 0 /\ IsNegative(x) /\ ~IsNegative(y)
    [] op \in {"Mult", "Div"} -> IsNegative(x) # IsNegative(y)
    [] op = "FloorDiv" -> x.n = 0 /\ IsNegative(x) # IsNegative(y)
    [] op = "Mod" -> IsNegative(y)
    [] op = "Pow" -> IsNegative(x) /\ y.n % 2 = 1

\* ALLOWED_OPS[type(node.op)](left, right)
ApplyBinary(op, x, y) ==
  IF x.t = "raise" THEN Raise
  ELSE IF x.t = "unmodelled" THEN Unmodelled
  ELSE IF y.t \in {"raise", "unmodelled"} THEN y
  ELSE IF x.t \in {"int", "bool"} /\ y.t \in {"int", "bool"} THEN IntOp(op, x.n, y.n)
  ELSE IF x.t \in {"int", "bool", "float"} /\ y.t \in {"int", "bool", "float"}
          /\ IsExact(x) /\ IsExact(y)
    THEN LET r == FloatOp(op, [n |-> x.n, d |-> Abs(x.d)], [n |-> y.n, d |-> Abs(y.d)])
         IN IF r.t = "float" /\ r.n = 0
              THEN Val("float", 0, IF ZeroIsNegative(op, x, y) THEN -1 ELSE 1)
              ELSE r
  ELSE Unmodelled

\* operator.neg
ApplyUnary(op, x) ==
  IF x.t \in {"raise", "unmodelled"} THEN x
  ELSE IF x.t \in {"int", "bool"} THEN IntV(-x.n)
  ELSE IF x.t = "float" THEN Val("float", -x.n, IF x.n = 0 THEN -x.d ELSE x.d)
  ELSE Val("big", -x.n, x.d)

\* ALLOWED_OPS, by ast operator class.
ALLOWED_OPS == {"Add", "Sub", "Mult", "Div", "Pow", "USub", "FloorDiv", "Mod"}

\* safe_eval_expr(node).  ast.Num matches an int literal and not a bool; the
\* second test, Constant with an int or float value, also matches True and False
\* (bool is a subclass of int).  Every other node raises ValueError.
RECURSIVE safe_eval_expr(_)
safe_eval_expr(node) ==
  IF node.k = "Num" THEN IntV(node.v)
  ELSE IF node.k = "Constant" /\ node.v \in {"True", "False"}
    THEN Val("bool", IF node.v = "True" THEN 1 ELSE 0, 1)
  ELSE IF node.k = "BinOp" /\ node.op \in ALLOWED_OPS
    THEN ApplyBinary(node.op, safe_eval_expr(node.l), safe_eval_expr(node.r))
  ELSE IF node.k = "UnaryOp" /\ node.op \in ALLOWED_OPS
    THEN ApplyUnary(node.op, safe_eval_expr(node.e))
  ELSE Raise

\* float(val)
ToFloat(x) ==
  IF x.t = "big" THEN (IF x.d >= DoubleMaxExp THEN Raise ELSE Val("bigfloat", x.n, x.d))
  ELSE IF x.t \in {"int", "bool"} THEN Val("float", x.n, 1)
  ELSE x

\* f"{val}"; the digits of a big int are stood for by its power of two.
Str(x) ==
  IF x.t = "int" THEN IntToChars(x.n)
  ELSE IF x.t = "bool" THEN (IF x.n = 1 THEN W_True ELSE W_False)
  ELSE IF x.t = "float" THEN ReprFloat(x)
  ELSE (IF x.n < 0 THEN <<"-">> ELSE <<>>) \o <<"2**">> \o IntToChars(x.d)

NoteArithmetic ==
  << <<"- **Note:** I can only handle basic arithmetic (e.g., 2+3*4, (1+2)**3).">> >>

Steps(expr, val) ==
  << <<"- **Expression:** (">> \o expr \o <<")">>,
     <<"- **Result:** (">> \o Str(val) \o <<")">> >>

\* Whether the model covers what math_calculate does with expr.
MathModelled(expr) ==
  /\ Parse(expr).st # "unmodelled"
  /\ Parse(expr).st = "ok" => safe_eval_expr(Parse(expr).t).t # "unmodelled"

\* math_calculate(expr): (steps, float(val)), or (the note, None) when parsing,
\* evaluating or converting raised.
math_calculate(expr) ==
  LET r == Parse(expr)
      val == safe_eval_expr(r.t)
  IN IF r.st # "ok" \/ val.t = "raise" \/ ToFloat(val).t = "raise"
       THEN [steps |-> NoteArithmetic, val |-> NoValue]
       ELSE [steps |-> Steps(expr, val), val |-> ToFloat(val)]

\* -------------------------------------------------------- intent detection

detect_intent_CaseSensitive(text) ==
  LET t == Strip(text)
  IN IF StartsWith(t, T_math) THEN "math"
     ELSE IF StartsWith(t, T_compare) THEN "compare"
     ELSE IF StartsWith(t, T_rank) THEN "rank"
     ELSE IF StartsWith(t, T_explain) THEN "explain"
     ELSE IF StartsWith(t, T_summarize) THEN "summarize"
     ELSE IF StartsWith(t, T_brainstorm) THEN "brainstorm"
     ELSE "chat"

\* detect_intent(text): the prefix checks on text.strip().lower(), in the code's order.
detect_intent(text) ==
  LET t == Lower(Strip(text))
  IN IF StartsWith(t, T_math) THEN "math"
     ELSE IF StartsWith(t, T_compare) THEN "compare"
     ELSE IF StartsWith(t, T_rank) THEN "rank"
     ELSE IF StartsWith(t, T_explain) THEN "explain"
     ELSE IF StartsWith(t, T_summarize) THEN "summarize"
     ELSE IF StartsWith(t, T_brainstorm) THEN "brainstorm"
     ELSE "chat"

\* ----------------------------------------------------- compare and rank

\* [x.strip() for x in t.split(",") if x.strip()]
CommaList(t) ==
  LET parts == Split(t, <<",">>)
  IN SelectSeq([i \in 1..Len(parts) |-> Strip(parts[i])], LAMBDA x : x # <<>>)

\* parse_compare_payload(t): the item list and the attribute list.
parse_compare_payload(t) ==
  LET payload == Strip(AfterFirst(t, T_compare))
      parts == Split(payload, <<"|">>)
  IN [items |-> CommaList(Strip(parts[1])),
      attrs |-> IF Len(parts) > 1 THEN CommaList(Strip(parts[2])) ELSE <<>>]

\* a < b for str: lexicographic by code point.
RECURSIVE StrLess(_, _)
StrLess(a, b) ==
  IF b = <<>> THEN FALSE
  ELSE IF a = <<>> THEN TRUE
  ELSE IF Ord(Head(a)) # Ord(Head(b)) THEN Ord(Head(a)) < Ord(Head(b))
  ELSE StrLess(Tail(a), Tail(b))

\* The sort key: s.lower() when fold, else s itself.
KeyOf(x, fold) == IF fold THEN Lower(x) ELSE x

\* sorted(xs, key=...): a stable sort; x goes after the last element whose key is
\* not greater than its own.
RECURSIVE InsertSorted(_, _, _)
InsertSorted(x, sorted, fold) ==
  IF sorted = <<>> THEN <<x>>
  ELSE IF StrLess(KeyOf(x, fold), KeyOf(Head(sorted), fold)) THEN <<x>> \o sorted
  ELSE <<Head(sorted)>> \o InsertSorted(x, Tail(sorted), fold)

RECURSIVE SortedBy(_, _)
SortedBy(xs, fold) ==
  IF xs = <<>> THEN <<>>
  ELSE InsertSorted(xs[Len(xs)], SortedBy(Upto(xs, Len(xs) - 1), fold), fold)

rank_items_CaseSensitive(its) == SortedBy(its, FALSE)

\* rank_items(items): sorted(items, key=lambda s: s.lower())
rank_items(its) == SortedBy(its, TRUE)

\* ------------------------------------------------- the other response builders

\* respond_math's payload: user.split("math:", 1)[-1].strip()
MathPayload(u) == Strip(AfterFirst(u, T_math))

\* respond_math(user)
respond_math(u) ==
  LET payload == MathPayload(u)
      solution == solve_linear(Strip(AfterFirst(payload, T_solve)))
  IN IF StartsWith(payload, T_solve)
       THEN (IF IsUncaught(solution) THEN solution
             ELSE <<h(2, <<"Linear equation solution">>)>> \o solution)
       ELSE <<h(2, <<"Computation">>)>> \o math_calculate(payload).steps

\* respond_explain(user)
respond_explain(u) ==
  LET stripped == Strip(AfterFirst(u, T_explain))
      topic == IF stripped = <<>> THEN <<"that topic">> ELSE stripped
  IN << h(2, <<"Explainer: ">> \o topic),
        h(3, <<"Core idea">>),
        <<"Think of it as a system with inputs, a transformation, and outputs - optimize the transformation.">>,
        h(3, <<"Why it matters">>),
        bullet(<<"Clarity">>, <<"It reduces ambiguity and helps decisions.">>),
        bullet(<<"Speed">>, <<"Clear models shorten feedback loops.">>),
        bullet(<<"Reliability">>, <<"Explicit assumptions avoid hidden errors.">>) >>

\* re.split(r"(?<=[.!?])\s+", text): cut at each run of whitespace that follows
\* a '.', '!' or '?'.
RECURSIVE SplitSentences(_)
SplitSentences(t) ==
  LET cuts == {i \in 2..Len(t) : IsSpace(t[i]) /\ t[i - 1] \in {".", "!", "?"}}
  IN IF cuts = {} THEN <<t>>
     ELSE LET i == CHOOSE c \in cuts : \A k \in cuts : c <= k
          IN <<Upto(t, i - 1)>> \o SplitSentences(LStrip(From(t, i - 1)))

\* The number of sentences respond_summarize keeps.
MaxPoints == 6

\* respond_summarize(user)
respond_summarize(u) ==
  LET text == Strip(AfterFirst(u, T_summarize))
      parts == SplitSentences(text)
      sentences == SelectSeq([i \in 1..Len(parts) |-> Strip(parts[i])], LAMBDA x : x # <<>>)
      kept == Upto(sentences, IF Len(sentences) < MaxPoints THEN Len(sentences) ELSE MaxPoints)
  IN IF text = <<>>
       THEN << h(3, <<"I need the text">>), <<"Paste the content after 'summarize:'">> >>
       ELSE <<h(2, <<"Summary">>)>>
            \o (IF kept = <<>> THEN << <<>> >>
                ELSE [i \in 1..Len(kept) |-> bullet(<<"Point ">> \o IntToChars(i), kept[i])])

\* respond_brainstorm(user)
respond_brainstorm(u) ==
  LET stripped == Strip(AfterFirst(u, T_brainstorm))
      topic == IF stripped = <<>> THEN <<"your idea">> ELSE stripped
      rows == << << <<"Lean pilot">>, <<"Ship a minimal core to validate demand quickly.">> >>,
                 << <<"Delight hooks">>, <<"Add one playful feature users talk about.">> >>,
                 << <<"Data loop">>, <<"Instrument usage to learn and iterate weekly.">> >>,
                 << <<"Partner angle">>, <<"Find a collaborator who amplifies reach.">> >> >>
  IN <<h(2, <<"Brainstorm: ">> \o topic)>> \o table(<< <<"Idea">>, <<"Why">> >>, rows)

NoteCompare ==
  << h(3, <<"I need items and attributes">>),
     <<"Format: compare: item1, item2 | price, battery, camera">> >>

\* respond_compare asking for items only.
respond_compare_ItemsOnly(u) ==
  LET p == parse_compare_payload(u)
      rows == [i \in 1..Len(p.items) |-> <<p.items[i]>> \o [j \in 1..Len(p.attrs) |-> <<"-">>]]
  IN IF p.items = <<>> THEN NoteCompare
     ELSE <<h(2, <<"Comparison">>)>> \o table(<< <<"Item">> >> \o p.attrs, rows)

\* respond_compare(user)
respond_compare(u) ==
  LET p == parse_compare_payload(u)
      rows == [i \in 1..Len(p.items) |-> <<p.items[i]>> \o [j \in 1..Len(p.attrs) |-> <<"-">>]]
  IN IF p.items = <<>> \/ p.attrs = <<>> THEN NoteCompare
     ELSE <<h(2, <<"Comparison">>)>> \o table(<< <<"Item">> >> \o p.attrs, rows)

NoteRank == << h(3, <<"I need items">>), <<"Format: rank: item1, item2, item3">> >>

\* respond_rank(user)
respond_rank(u) ==
  LET its == CommaList(AfterFirst(u, T_rank))
      rk == rank_items(its)
      rows == [i \in 1..Len(rk) |-> <<IntToChars(i), rk[i]>>]
  IN IF its = <<>> THEN NoteRank
     ELSE <<h(2, <<"Ranking">>)>> \o table(<< <<"Rank">>, <<"Item">> >>, rows)

\* respond(user): the builder of the detected intent.
respond(u) ==
  LET it == detect_intent(u)
  IN IF it = "math" THEN respond_math(u)
     ELSE IF it = "compare" THEN respond_compare(u)
     ELSE IF it = "rank" THEN respond_rank(u)
     ELSE IF it = "explain" THEN respond_explain(u)
     ELSE IF it = "summarize" THEN respond_summarize(u)
     ELSE IF it = "brainstorm" THEN respond_brainstorm(u)
     ELSE respond_chat(u)

\* The module-level tables as the module's top level leaves them.
Globals ==
  [FACTS |-> FACTS,
   HARMFUL_PATTERNS |-> HARMFUL_PATTERNS,
   MEDICAL_PATTERNS |-> MEDICAL_PATTERNS,
   STYLE |-> [max_sections |-> 6, max_table_cols |-> max_table_cols,
              short_reply_threshold |-> short_reply_threshold]]

\* ---------------------------------------------------------------- sessions
\*
\* Each specification below builds an input piece by piece and then runs one
\* operation of the program on it.  The variables an operation does not touch keep
\* the value Init gave them.

Init ==
  /\ user = <<>>
  /\ nkeys = 0
  /\ pc = "typing"
  /\ intent = "none"
  /\ reply = <<>>
  /\ value = NoValue
  /\ items = <<>>
  /\ ranked = <<>>
  /\ lines = <<>>
  /\ printed = <<>>
  /\ globals = Globals

\* -------------------------------------------------- rank_items on a list

MaxItems == 3

ItemPool ==
  { <<"a">>, <<"A">>, <<"b">>, <<"B">>, <<"a", "b">>, <<"C">> }

AddItem ==
  /\ pc = "typing"
  /\ Len(items) < MaxItems
  /\ \E x \in ItemPool : items' = Append(items, x)
  /\ nkeys' = nkeys + 1
  /\ UNCHANGED <<user, pc, intent, reply, value, ranked, lines, printed, globals>>

\* ranked = rank_items(items)
Rank ==
  /\ pc = "typing"
  /\ ranked' = rank_items(items)
  /\ pc' = "ranked"
  /\ UNCHANGED <<user, nkeys, intent, reply, value, items, lines, printed, globals>>

\* rank_items applied to its own result.
Rerank ==
  /\ pc = "ranked"
  /\ items' = ranked
  /\ ranked' = rank_items(ranked)
  /\ pc' = "reranked"
  /\ UNCHANGED <<user, nkeys, intent, reply, value, lines, printed, globals>>

NextRank == AddItem \/ Rank \/ Rerank

SpecRank == Init /\ [][NextRank]_vars

\* How many times x occurs in the list s.
Count(x, s) == Cardinality({i \in 1..Len(s) : s[i] = x})

\* C10: the result of rank_items is a permutation of its argument in which no
\* item's lowercased text is greater than that of a later item, and ranking the
\* result again returns it unchanged (the second call's argument, items, is the
\* first call's result), also for lists with items that differ only in case.
C10_RankIsCaseInsensitiveSortAndIdempotent ==
  pc \in {"ranked", "reranked"} =>
    /\ Len(ranked) = Len(items)
    /\ \A x \in ItemPool : Count(x, ranked) = Count(x, items)
    /\ \A i \in 1..Len(ranked) : \A j \in (i + 1)..Len(ranked) :
         ~StrLess(Lower(ranked[j]), Lower(ranked[i]))
    /\ pc = "reranked" => ranked = items

C10_Witness ==
  /\ pc = "reranked"
  /\ ranked = << <<"a">>, <<"b">>, <<"B">> >>
  /\ items = ranked

\* ------------------------------------------------ solve_linear on an equation

\* A run of n nines.
Nines(n) == [i \in 1..n |-> "9"]

\* The pieces an equation text is put together from, slot by slot: coefficient,
\* variable, constant, equals sign, right side; well formed and not, and a
\* coefficient too long for int() and a right side too large for a float.
Slots ==
  << { <<>>, <<"+">>, <<"-">>, <<"2">>, <<"3">>, <<"-", "3">>, <<"0">>,
       Nines(MaxStrDigits + 1) },
     { <<"x">>, <<" ", "x">>, <<"y">>, <<>> },
     { <<>>, <<"+", "3">>, <<"-", "5">>, <<"+">>, <<"3">> },
     { <<"=">>, <<>>, <<" ", "=", " ">>, <<"=", "=">> },
     { <<"1", "1">>, <<"1", "0">>, <<"1", "2">>, <<"-", "4">>, <<"0">>, <<>>,
       <<"1", ".", "5">>, Nines(FloatMaxDigits + 2) } >>

\* One more piece of the equation text: that of the next slot.
TypeEquation ==
  /\ pc = "typing"
  /\ nkeys < Len(Slots)
  /\ \E p \in Slots[nkeys + 1] : user' = user \o p
  /\ nkeys' = nkeys + 1
  /\ UNCHANGED <<pc, intent, reply, value, items, ranked, lines, printed, globals>>

\* reply = solve_linear(user)
Solve ==
  /\ pc = "typing"
  /\ SolveModelled(user)
  /\ reply' = solve_linear(user)
  /\ pc' = "done"
  /\ UNCHANGED <<user, nkeys, intent, value, items, ranked, lines, printed, globals>>

NextSolve == TypeEquation \/ Solve

SpecSolve == Init /\ [][NextSolve]_vars

\* The integers the well-formed pieces of ordinary size stand for.
CoefficientOf ==
  { [s |-> <<>>, v |-> 1], [s |-> <<"+">>, v |-> 1], [s |-> <<"-">>, v |-> -1],
    [s |-> <<"2">>, v |-> 2], [s |-> <<"3">>, v |-> 3], [s |-> <<"-", "3">>, v |-> -3] }

ConstantOf ==
  { [s |-> <<>>, v |-> 0], [s |-> <<"+", "3">>, v |-> 3], [s |-> <<"-", "5">>, v |-> -5] }

RightSideOf ==
  { [s |-> <<"1", "1">>, v |-> 11], [s |-> <<"1", "0">>, v |-> 10],
    [s |-> <<"1", "2">>, v |-> 12], [s |-> <<"-", "4">>, v |-> -4], [s |-> <<"0">>, v |-> 0] }

SolutionLine(x) == <<"- **Solution:** (x = ">> \o x \o <<")">>

\* s is an optional sign and then one or more digits.
IsSignedInteger(s) ==
  IF s # <<>> /\ Head(s) \in {"+", "-"} THEN IsDigits(Tail(s)) ELSE IsDigits(s)

\* left is [sign][digits]x[sign digits].
IsCoefficientVariableForm(left) ==
  \E i \in 1..Len(left) :
    /\ left[i] = "x"
    /\ Upto(left, i - 1) \in {<<>>, <<"+">>, <<"-">>} \/ IsSignedInteger(Upto(left, i - 1))
    /\ \/ i = Len(left)
       \/ /\ left[i + 1] \in {"+", "-"}
          /\ IsDigits(From(left, i + 1))

\* The digits of the coefficient of a left side of that form are all zero.
HasZeroCoefficient(left) ==
  \E i \in 1..Len(left) :
    /\ left[i] = "x"
    /\ \E k \in 1..(i - 1) : IsDigit(left[k])
    /\ \A k \in 1..(i - 1) : left[k] \in {"+", "-", "0"}

\* The reply is a derivation trace: its four lines, the first the given equation.
IsDerivation(r) == Len(r) = 4 /\ r[1][1] = "- **Given:** ("

\* C7: for every equation [a]x[+/-b]=c with integer c and a non-zero coefficient,
\* solve_linear returns the four-line derivation whose solution is (c - b) / a,
\* with a = 1 for an absent or lone '+' coefficient, -1 for a lone '-', b = 0 for
\* an absent constant; a * x = c - b; 2x+3=11 gives 4.0, x-5=10 gives 15.0 and
\* 3x=12 gives 4.0.
C7_SolvesLinearEquation ==
  pc = "done" =>
    LET eq == Remove(user, " ")
        left == BeforeFirst(eq, <<"=">>)
        right == AfterFirst(eq, <<"=">>)
    IN /\ (/\ Contains(eq, <<"=">>)
           /\ IsCoefficientVariableForm(left)
           /\ IsSignedInteger(right)
           /\ ~HasZeroCoefficient(left)) => IsDerivation(reply)
       /\ \A a \in CoefficientOf, b \in ConstantOf, c \in RightSideOf :
            eq = a.s \o <<"x">> \o b.s \o <<"=">> \o c.s =>
              LET x == Float(c.v - b.v, a.v)
              IN /\ IsDerivation(reply)
                 /\ reply[4] = SolutionLine(ReprFloat(x))
                 /\ a.v * x.n = (c.v - b.v) * x.d
       /\ user = <<"2", "x", "+", "3", "=", "1", "1">> =>
            reply[4] = SolutionLine(<<"4", ".", "0">>)
       /\ user = <<"x", "-", "5", "=", "1", "0">> =>
            reply[4] = SolutionLine(<<"1", "5", ".", "0">>)
       /\ user = <<"3", "x", "=", "1", "2">> =>
            reply[4] = SolutionLine(<<"4", ".", "0">>)

\* C8: solve_linear answers a text without '=' with the 'provide an equation'
\* note; else a left side not of the coefficient/variable form with the 'simple
\* linear equations' note; else a right side that is no integer with the
\* 'right-hand side' note; else a zero coefficient with the 'coefficient cannot be
\* zero' note; the four notes differ pairwise, in each of these cases the note is
\* what is returned (nothing is raised), and no solution is returned in any of them.
C8_EachFailureHasItsNote ==
  pc = "done" =>
    LET eq == Remove(user, " ")
        left == BeforeFirst(eq, <<"=">>)
        right == AfterFirst(eq, <<"=">>)
        notes == {NoteNoEquation, NoteNotLinear, NoteRightSide, NoteZeroCoefficient}
    IN /\ Cardinality(notes) = 4
       /\ reply = (IF ~Contains(eq, <<"=">>) THEN NoteNoEquation
                   ELSE IF ~IsCoefficientVariableForm(left) THEN NoteNotLinear
                   ELSE IF ~IsSignedInteger(right) THEN NoteRightSide
                   ELSE IF HasZeroCoefficient(left) THEN NoteZeroCoefficient
                   ELSE reply)
       /\ IsDerivation(reply) =>
            /\ Contains(eq, <<"=">>) /\ IsCoefficientVariableForm(left)
            /\ IsSignedInteger(right) /\ ~HasZeroCoefficient(left)

\* ------------------------------------------------- respond_chat on a message

MaxChatPieces == 3

\* The length of the filler piece: one more short piece reaches the threshold.
FillerLen == 138

Filler == [i \in 1..FillerLen |-> "z"]

ChatPieces ==
  { <<" ">>, <<"h", "i">>, <<"B", "o", "m", "b">>, <<"d", "o", "s", "e">>,
    <<"O", "h", "m", " ", "l", "a", "w">>,
    <<"p", "y", "t", "h", "o", "n", " ", "l", "i", "s", "t">>, Filler }

\* One more piece of the message, while fewer than MaxChatPieces were typed.
TypeChat ==
  /\ pc = "typing"
  /\ nkeys < MaxChatPieces
  /\ \E p \in ChatPieces : user' = user \o p
  /\ nkeys' = nkeys + 1
  /\ UNCHANGED <<pc, intent, reply, value, items, ranked, lines, printed, globals>>

\* reply = respond_chat(user)
Chat ==
  /\ pc = "typing"
  /\ reply' = respond_chat(user)
  /\ pc' = "done"
  /\ UNCHANGED <<user, nkeys, intent, value, items, ranked, lines, printed, globals>>

NextChat == TypeChat \/ Chat

SpecChat == Init /\ [][NextChat]_vars

\* C9: respond_chat answers with the refusal when a harmful pattern matches; else
\* with the medical disclaimer when a medical pattern matches; else with the fact
\* of a fact key found in the input; else with the one-line prompt for fewer than
\* 140 characters and the multi-paragraph template from 140 on.  A message with a
\* harmful and a medical term gets the refusal.
C9_ChatChainOrder ==
  pc = "done" =>
    /\ is_harmful(user) => reply = RefusalTemplate
    /\ ~is_harmful(user) /\ is_medical(user) => reply = MedicalTemplate
    /\ ~is_harmful(user) /\ ~is_medical(user) /\ lookup_fact(user) # None =>
         reply = FactTemplate(lookup_fact(user))
    /\ ~is_harmful(user) /\ ~is_medical(user) /\ lookup_fact(user) = None =>
         /\ Len(user) <= 139 => reply = ShortTemplate
         /\ Len(user) >= 140 => reply = LongTemplate
    /\ Cardinality({RefusalTemplate, MedicalTemplate, ShortTemplate, LongTemplate}) = 4

C9_Witness ==
  /\ pc = "done"
  /\ is_harmful(user)
  /\ is_medical(user)
  /\ lookup_fact(user) # None
  /\ reply = RefusalTemplate

\* ------------------------------------------------------ respond on a line

MaxPieces == 3

LinePieces ==
  { <<" ">>, T_math, <<"M", "A", "T", "H", ":">>, T_compare, <<"R", "a", "n", "k", ":">>,
    <<"E", "x", "p", "l", "a", "i", "n", ":">>, T_summarize, T_brainstorm,
    <<"b", "o", "m", "b">>, <<"2", "+", "3">>, <<"b", ",", "A", "|", "p">>,
    <<"s", "o", "l", "v", "e", " ", "2", "x", "=", "4">> }

\* One more piece of the line, while fewer than MaxPieces were typed.
TypeLine ==
  /\ pc = "typing"
  /\ nkeys < MaxPieces
  /\ \E p \in LinePieces : user' = user \o p
  /\ nkeys' = nkeys + 1
  /\ UNCHANGED <<pc, intent, reply, value, items, ranked, lines, printed, globals>>

\* Whether the model covers respond(u): a line routed to math_calculate carries
\* an expression of the model.
RespondModelled(u) ==
  detect_intent(u) = "math" =>
    IF StartsWith(MathPayload(u), T_solve)
      THEN SolveModelled(Strip(AfterFirst(MathPayload(u), T_solve)))
      ELSE MathModelled(MathPayload(u))

\* reply = respond(user), intent being the local of respond.
Respond ==
  /\ pc = "typing"
  /\ RespondModelled(user)
  /\ intent' = detect_intent(user)
  /\ reply' = respond(user)
  /\ pc' = "done"
  /\ UNCHANGED <<user, nkeys, value, items, ranked, lines, printed, globals>>

Next == TypeLine \/ Respond

Spec == Init /\ [][Next]_vars

\* The six prefixes with their tags, in no order.
PrefixTags ==
  { [p |-> T_math, tag |-> "math"], [p |-> T_compare, tag |-> "compare"],
    [p |-> T_rank, tag |-> "rank"], [p |-> T_explain, tag |-> "explain"],
    [p |-> T_summarize, tag |-> "summarize"], [p |-> T_brainstorm, tag |-> "brainstorm"] }

\* The prefixes the trimmed, lowercased text starts with.
PrefixesOf(text) == {e \in PrefixTags : StartsWith(Lower(Strip(text)), e.p)}

\* C1: detect_intent returns the tag of the prefix that the trimmed, lowercased
\* text starts with, and chat when it starts with none; the text starts with at
\* most one prefix, so the tag does not depend on the order of the checks.
C1_IntentIsTagOfPrefix ==
  pc = "done" =>
    /\ Cardinality(PrefixesOf(user)) <= 1
    /\ \A e \in PrefixesOf(user) : intent = e.tag
    /\ PrefixesOf(user) = {} => intent = "chat"

C1_Witness ==
  /\ pc = "done"
  /\ intent = "explain"
  /\ StartsWith(user, <<" ", "E", "x", "p", "l", "a", "i", "n", ":">>)

\* C3: a line that contains suicide, bomb or weapon in any letter case is answered
\* with the refusal template, whatever else it contains.
C3_HarmfulLineIsRefused ==
  /\ pc = "done"
  /\ \/ Contains(Lower(user), <<"s", "u", "i", "c", "i", "d", "e">>)
     \/ Contains(Lower(user), <<"b", "o", "m", "b">>)
     \/ Contains(Lower(user), <<"w", "e", "a", "p", "o", "n">>)
  => reply = RefusalTemplate

\* The line with the letters of its command prefix in lower case.
WithLowerPrefix(u) ==
  LET lead == Len(u) - Len(LStrip(u))
      n == lead + Len((CHOOSE e \in PrefixesOf(u) : TRUE).p)
  IN Lower(Upto(u, n)) \o From(u, n)

\* C4: a line whose trimmed text starts with a command prefix in any letter case
\* gets the response of the same line with the prefix in lower case.
C4_PrefixCaseDoesNotChangeResponse ==
  pc = "done" /\ PrefixesOf(user) # {} /\ RespondModelled(WithLowerPrefix(user))
    => reply = respond(WithLowerPrefix(user))

\* -------------------------------------------- math_calculate on an expression

MaxExprPieces == 3

Operands ==
  { <<"2">>, <<"3">>, <<"7">>, <<"0">>, <<"-", "7">>, <<"(", "1", "+", "2", ")">>,
    <<"3", "*", "4">>, <<"1", "0", "2", "4">>, <<"T", "r", "u", "e">>, <<"x">> }

Operators ==
  { <<"+">>, <<"-">>, <<"*">>, <<"/">>, <<"/", "/">>, <<"%">>, <<"*", "*">>,
    <<" ", "<", " ">>, <<" ", "a", "n", "d", " ">> }

\* One more piece of the expression, typed operand, operator, operand, ...
TypeExpr ==
  /\ pc = "typing"
  /\ nkeys < MaxExprPieces
  /\ \E p \in (IF nkeys % 2 = 0 THEN Operands ELSE Operators) : user' = user \o p
  /\ nkeys' = nkeys + 1
  /\ UNCHANGED <<pc, intent, reply, value, items, ranked, lines, printed, globals>>

\* (reply, value) = math_calculate(user)
Calculate ==
  /\ pc = "typing"
  /\ MathModelled(user)
  /\ reply' = math_calculate(user).steps
  /\ value' = math_calculate(user).val
  /\ pc' = "done"
  /\ UNCHANGED <<user, nkeys, intent, items, ranked, lines, printed, globals>>

NextMath == TypeExpr \/ Calculate

SpecMath == Init /\ [][NextMath]_vars

\* The expression holds a name, a True/False/None, a comparison or a boolean
\* operator.
HasDisallowedConstruct(expr) ==
  \E i \in 1..Len(Lex(expr)) :
    \/ Lex(expr)[i].k \in {"name", "const"}
    \/ Lex(expr)[i].k = "op" /\ Lex(expr)[i].s \in {"and", "or", "not", "cmp"}

\* C2: an expression with a construct outside the allow-list (a name, a
\* comparison, a boolean operator, a boolean literal) gets the fixed note and no
\* value.
C2_DisallowedConstructIsRejected ==
  pc = "done" /\ HasDisallowedConstruct(user)
    => reply = NoteArithmetic /\ value = NoValue

\* The expression is built from integer literals, parentheses, unary minus and
\* + - * // % **, and evaluates to an integer (no zero divisor, no negative
\* exponent).
IsIntegerExpression(expr) ==
  /\ \A i \in 1..Len(Lex(expr)) :
       \/ Lex(expr)[i].k = "num"
       \/ Lex(expr)[i].k = "op" /\ Lex(expr)[i].s \in {"+", "-", "*", "//", "%", "**", "(", ")"}
  /\ Parse(expr).st = "ok"
  /\ safe_eval_expr(Parse(expr).t).t \in {"int", "big"}

\* The integers the plain operands write.
OperandValue ==
  { [s |-> <<"2">>, v |-> 2], [s |-> <<"3">>, v |-> 3], [s |-> <<"7">>, v |-> 7],
    [s |-> <<"0">>, v |-> 0], [s |-> <<"-", "7">>, v |-> -7] }

\* q is a divided by b, rounded toward negative infinity.
IsFloorQuotient(q, a, b) ==
  IF b > 0 THEN b * q <= a /\ a < b * q + b ELSE b * q >= a /\ a > b * q + b

\* C5: for an expression of integer literals, parentheses, unary minus and
\* + - * // % ** with non-zero divisors and non-negative exponents,
\* math_calculate returns the value of the expression under the standard
\* precedence: a number, the sum, difference and product of two operands, the
\* quotient rounded toward negative infinity for //, and for % the remainder r
\* that goes with it, (a // b) * b + r = a; 2+3*4 gives 14, (1+2)**3 gives 27,
\* 7//2 gives 3 and 7%2 gives 1.
C5_IntegerExpressionHasItsValue ==
  pc = "done" /\ IsIntegerExpression(user) =>
    /\ value.t \in {"float", "bigfloat"}
    /\ \A a \in OperandValue, b \in OperandValue :
         /\ user = a.s \o <<"+">> \o b.s => value = Val("float", a.v + b.v, 1)
         /\ user = a.s \o <<"-">> \o b.s => value = Val("float", a.v - b.v, 1)
         /\ user = a.s \o <<"*">> \o b.s => value = Val("float", a.v * b.v, 1)
         /\ user = a.s \o <<"/", "/">> \o b.s =>
              value.t = "float" /\ value.d = 1 /\ IsFloorQuotient(value.n, a.v, b.v)
         /\ user = a.s \o <<"%">> \o b.s =>
              /\ value.t = "float" /\ value.d = 1
              /\ \E q \in -7..7 : IsFloorQuotient(q, a.v, b.v) /\ q * b.v + value.n = a.v
    /\ user = <<"2", "+", "3", "*", "4">> => value = Val("float", 14, 1)
    /\ user = <<"(", "1", "+", "2", ")", "*", "*", "3">> => value = Val("float", 27, 1)
    /\ user = <<"7", "/", "/", "2">> => value = Val("float", 3, 1)
    /\ user = <<"7", "%", "2">> => value = Val("float", 1, 1)
    /\ user = <<"3", "*", "4", "*", "*", "2">> => value = Val("float", 48, 1)
    /\ user = <<"-", "7", "*", "*", "2">> => value = Val("float", -49, 1)

\* The expression divides a number by the literal 0.
DividesByZero(expr) ==
  \E a \in {<<"2">>, <<"3">>, <<"7">>, <<"0">>, <<"-", "7">>, <<"3", "*", "4">>},
     op \in {<<"/">>, <<"/", "/">>, <<"%">>} :
    expr = a \o op \o <<"0">>

\* C6: math_calculate returns either the two-line trace with a number or the note
\* with None, the value being None exactly when the text is the note; a division,
\* floor division or modulo by zero gives the note and None.
C6_ValueIsNoneIffNote ==
  pc = "done" =>
    /\ (value = NoValue) <=> (reply = NoteArithmetic)
    /\ value # NoValue => Len(reply) = 2 /\ value.t \in {"float", "bigfloat"}
    /\ DividesByZero(user) => value = NoValue /\ reply = NoteArithmetic

C6_Witness ==
  /\ pc = "done"
  /\ user = <<"-", "7", "/", "/", "0">>
  /\ value = NoValue
  /\ reply = NoteArithmetic

\* ------------------------------------------------------- main: the read loop

MaxLines == 3

\* HELP_TEXT
HELP_TEXT ==
  << h(2, <<"Commands">>),
     bullet(<<"Chat">>, <<"Just type your message.">>),
     bullet(<<"Math">>, <<"math: 2+3*4 or math: solve 2x+3=11">>),
     bullet(<<"Explain">>, <<"explain: topic">>),
     bullet(<<"Summarize">>, <<"summarize: paste text">>),
     bullet(<<"Brainstorm">>, <<"brainstorm: your idea">>),
     bullet(<<"Compare">>, <<"compare: a,b,c | price,battery">>),
     bullet(<<"Rank">>, <<"rank: a, b, c">>),
     bullet(<<"Quit">>, <<"/exit or Ctrl+C">>) >>

Banner ==
  << [at |-> 0, text |-> <<h(1, <<"Local Copilot-style chatbot">>)>>],
     [at |-> 0, text |-> << <<"Type /help for commands. No internet, no APIs.">> >>] >>

Goodbye == << <<"Goodbye.">> >>
\* print("\nGoodbye."): an empty line first.
InterruptGoodbye == << <<>>, <<"Goodbye.">> >>

ExitWords ==
  { <<"/", "e", "x", "i", "t">>, <<"e", "x", "i", "t">>, <<"q", "u", "i", "t">> }

HelpWord == <<"/", "h", "e", "l", "p">>

\* The lines a user types, before input() returns them.
MainLines ==
  { <<>>, <<" ">>, <<"/", "e", "x", "i", "t">>, <<"E", "X", "I", "T">>,
    <<" ", "Q", "u", "i", "t", " ">>, HelpWord, <<" ", "/", "H", "E", "L", "P">>,
    <<"h", "e", "l", "l", "o">>, <<"e", "x", "i", "t", " ", "n", "o", "w">>,
    T_rank \o <<" ", "b", ",", "a">>,
    T_math \o <<" ", "2", "+", "3">>,
    T_math \o <<" ">> \o T_solve \o <<" ", "x", "=">> \o Nines(FloatMaxDigits + 2) }

\* The loop answering a line with the response to the line before it and this one.
main_print_Remembering(before, u) ==
  IF before = <<>> THEN respond(u) ELSE respond(before[Len(before)] \o u)

\* print(respond(user)): what the loop prints for a line that is no command.  The
\* lines read before are at hand in the loop and take no part.
main_print(before, u) == respond(u)

\* main, up to the first prompt: the two banner lines.
MainStart ==
  /\ pc = "typing"
  /\ lines = <<>>
  /\ printed = <<>>
  /\ printed' = Banner
  /\ pc' = "prompt"
  /\ UNCHANGED <<user, nkeys, intent, reply, value, items, ranked, lines, globals>>

\* One pass of the loop on a line that input() returns.  An exception that respond
\* lets through meets no handler in main and ends the process.
ReadLine ==
  /\ pc = "prompt"
  /\ Len(lines) < MaxLines
  /\ \E raw \in MainLines :
       /\ RespondModelled(Strip(raw))
       /\ lines' = Append(lines, raw)
       /\ user' = Strip(raw)
       /\ IF Strip(raw) = <<>>
            THEN UNCHANGED <<pc, printed, reply>>
          ELSE IF Lower(Strip(raw)) \in ExitWords
            THEN /\ printed' = Append(printed, [at |-> Len(lines) + 1, text |-> Goodbye])
                 /\ pc' = "ended"
                 /\ UNCHANGED reply
          ELSE IF Lower(Strip(raw)) = HelpWord
            THEN /\ printed' = Append(printed, [at |-> Len(lines) + 1, text |-> HELP_TEXT])
                 /\ UNCHANGED <<pc, reply>>
          ELSE /\ reply' = main_print(lines, Strip(raw))
               /\ printed' = Append(printed, [at |-> Len(lines) + 1, text |-> reply'])
               /\ pc' = IF IsUncaught(reply') THEN "crashed" ELSE "prompt"
  /\ UNCHANGED <<nkeys, intent, value, items, ranked, globals>>

\* KeyboardInterrupt at the prompt.
Interrupt ==
  /\ pc = "prompt"
  /\ printed' = Append(printed, [at |-> Len(lines) + 1, text |-> InterruptGoodbye])
  /\ pc' = "ended"
  /\ UNCHANGED <<user, nkeys, intent, reply, value, items, ranked, lines, globals>>

\* The input ends at the prompt: input() raises EOFError, which main does not catch.
EndOfInput ==
  /\ pc = "prompt"
  /\ printed' = Append(printed, [at |-> Len(lines) + 1, text |-> Uncaught("EOFError")])
  /\ pc' = "crashed"
  /\ UNCHANGED <<user, nkeys, intent, reply, value, items, ranked, lines, globals>>

NextMain == MainStart \/ ReadLine \/ Interrupt \/ EndOfInput

SpecMain == Init /\ [][NextMain]_vars

\* What main printed while it handled the i-th line.
PrintedAt(i) == SelectSeq(printed, LAMBDA e : e.at = i)

\* The i-th line did not end the loop: another line was read after it, or the
\* loop is at the prompt, or it ended at a later prompt.
LoopContinuedAfter(i) ==
  \/ i < Len(lines)
  \/ pc = "prompt"
  \/ PrintedAt(Len(lines) + 1) # <<>>

IsExitLine(raw) == Lower(Strip(raw)) \in ExitWords
IsHelpLine(raw) == Lower(Strip(raw)) = HelpWord
IsOtherLine(raw) == Strip(raw) # <<>> /\ ~IsExitLine(raw) /\ ~IsHelpLine(raw)

\* C11: the loop ends only at a line that, trimmed and lowercased, is /exit, exit
\* or quit, or at an interrupt of the prompt; /help prints the command summary and
\* the loop continues; an empty line prints nothing and the loop continues; every
\* other line prints exactly one response and the loop continues, whatever
\* happens while the response is built.
C11_LoopEndsOnlyOnExitOrInterrupt ==
  pc # "typing" =>
    /\ pc # "prompt" =>
         \/ /\ lines # <<>>
            /\ IsExitLine(lines[Len(lines)])
            /\ PrintedAt(Len(lines)) = <<[at |-> Len(lines), text |-> Goodbye]>>
         \/ PrintedAt(Len(lines) + 1) = <<[at |-> Len(lines) + 1, text |-> InterruptGoodbye]>>
    /\ \A i \in 1..Len(lines) :
         /\ IsHelpLine(lines[i]) =>
              /\ PrintedAt(i) = <<[at |-> i, text |-> HELP_TEXT]>>
              /\ LoopContinuedAfter(i)
         /\ Strip(lines[i]) = <<>> => PrintedAt(i) = <<>> /\ LoopContinuedAfter(i)
         /\ IsOtherLine(lines[i]) =>
              /\ Len(PrintedAt(i)) = 1
              /\ ~IsUncaught(PrintedAt(i)[1].text)
              /\ LoopContinuedAfter(i)

\* C13: the response printed for a line is respond of that line alone, the same
\* wherever in the sequence the line stands, and the fact table, the pattern
\* lists and the style settings stay as the module set them.
C13_ResponsesAreStateless ==
  pc # "typing" =>
    /\ \A i \in 1..Len(lines) :
         IsOtherLine(lines[i]) =>
           PrintedAt(i) = <<[at |-> i, text |-> respond(Strip(lines[i]))]>>
    /\ \A i, j \in 1..Len(lines) :
         lines[i] = lines[j] =>
           [k \in 1..Len(PrintedAt(i)) |-> PrintedAt(i)[k].text]
             = [k \in 1..Len(PrintedAt(j)) |-> PrintedAt(j)[k].text]
    /\ globals = Globals

C13_Witness ==
  /\ pc = "prompt"
  /\ lines = << T_rank \o <<" ", "b", ",", "a">>, <<"h", "e", "l", "l", "o">>,
                T_rank \o <<" ", "b", ",", "a">> >>
  /\ PrintedAt(1) # <<>>
  /\ PrintedAt(3)[1].text = PrintedAt(1)[1].text
  /\ PrintedAt(2)[1].text # PrintedAt(1)[1].text

\* ------------------------------- the table builders on a line: compare, rank, brainstorm

MaxPayloadPieces == 3

\* How a line for a table builder starts, and the pieces of what follows.
TablePrefixes == { T_compare, T_rank, T_brainstorm, <<"R", "a", "n", "k", ":">>, <<" ">> }

PayloadPieces ==
  { <<"a", ",", "B">>, <<"c">>, <<",">>, <<" ">>, <<"|">>, <<"p">>,
    <<"p", ",", "q", ",", "r", ",", "s", ",", "t">> }

\* One more piece of the line: its start, then up to MaxPayloadPieces pieces.
TypePayload ==
  /\ pc = "typing"
  /\ nkeys <= MaxPayloadPieces
  /\ \E p \in (IF nkeys = 0 THEN TablePrefixes ELSE PayloadPieces) : user' = user \o p
  /\ nkeys' = nkeys + 1
  /\ UNCHANGED <<pc, intent, reply, value, items, ranked, lines, printed, globals>>

\* reply = respond_compare(user)
Compare ==
  /\ pc = "typing"
  /\ nkeys > 0
  /\ reply' = respond_compare(user)
  /\ pc' = "compare"
  /\ UNCHANGED <<user, nkeys, intent, value, items, ranked, lines, printed, globals>>

\* reply = respond_rank(user)
RankLine ==
  /\ pc = "typing"
  /\ nkeys > 0
  /\ reply' = respond_rank(user)
  /\ pc' = "rank"
  /\ UNCHANGED <<user, nkeys, intent, value, items, ranked, lines, printed, globals>>

\* reply = respond_brainstorm(user)
Brainstorm ==
  /\ pc = "typing"
  /\ nkeys > 0
  /\ reply' = respond_brainstorm(user)
  /\ pc' = "brainstorm"
  /\ UNCHANGED <<user, nkeys, intent, value, items, ranked, lines, printed, globals>>

NextTable == TypePayload \/ Compare \/ RankLine \/ Brainstorm

SpecTable == Init /\ [][NextTable]_vars

\* No entry is left of t after splitting on commas and dropping blank entries.
NoEntry(t) == \A i \in 1..Len(t) : IsSpace(t[i]) \/ t[i] = ","

\* The part of a compare payload before the first '|', and the part between the
\* first and the second (empty without a first).
ItemsPart(payload) == BeforeFirst(payload, <<"|">>)
AttrsPart(payload) ==
  IF Contains(payload, <<"|">>) THEN BeforeFirst(AfterFirst(payload, <<"|">>), <<"|">>) ELSE <<>>

\* C12: respond_compare returns the 'I need items and attributes' note whenever
\* the item list or the attribute list of its payload is empty, and respond_rank
\* the 'I need items' note whenever no non-blank item remains; the note is the
\* whole reply, with no table after it.
C12_MalformedPayloadGetsUsageNote ==
  /\ pc = "compare" =>
       LET payload == AfterFirst(user, T_compare)
       IN NoEntry(ItemsPart(payload)) \/ NoEntry(AttrsPart(payload)) => reply = NoteCompare
  /\ pc = "rank" => (NoEntry(AfterFirst(user, T_rank)) => reply = NoteRank)
  /\ Len(NoteCompare) = 2 /\ Len(NoteRank) = 2 /\ NoteCompare # NoteRank

C12_Witness ==
  /\ pc = "compare"
  /\ user = T_compare \o <<"a", ",", "B", "|", " ">>
  /\ reply = NoteCompare

\* The number of '|' a fragment of a line shows.
PipesIn(f) == IF f \in {"| ", " | ", " |", "|"} THEN 1 ELSE 0

RECURSIVE PipeCount(_)
PipeCount(line) == IF line = <<>> THEN 0 ELSE PipesIn(Head(line)) + PipeCount(Tail(line))

\* The cells of a table row as it is printed: one between each two '|'.
CellCount(line) == PipeCount(line) - 1

\* The items a builder makes rows of.
ItemsOf(u) ==
  IF pc = "compare" THEN parse_compare_payload(u).items
  ELSE IF pc = "rank" THEN CommaList(AfterFirst(u, T_rank))
  ELSE <<1, 2, 3, 4>>

\* C14: in every table of a compare, rank or brainstorm response the header row
\* has at most 5 cells, the separator row and every data row have as many cells
\* as the header row, there is one data row per item, and a compare request with
\* more than 4 attributes shows the Item column and the first 4 attributes in
\* input order.
C14_TablesAreRectangularAndBounded ==
  pc \in {"compare", "rank", "brainstorm"} /\ reply \notin {NoteCompare, NoteRank} =>
    /\ Len(reply) = 3 + Len(ItemsOf(user))
    /\ CellCount(reply[2]) >= 1 /\ CellCount(reply[2]) <= 5
    /\ \A k \in 3..Len(reply) : CellCount(reply[k]) = CellCount(reply[2])
    /\ pc = "compare" /\ Len(parse_compare_payload(user).attrs) > 4 =>
         reply[2] = <<"| ">> \o <<"Item">> \o <<" | ">>
                      \o parse_compare_payload(user).attrs[1] \o <<" | ">>
                      \o parse_compare_payload(user).attrs[2] \o <<" | ">>
                      \o parse_compare_payload(user).attrs[3] \o <<" | ">>
                      \o parse_compare_payload(user).attrs[4] \o <<" |">>

====
